---- MODULE Spec2Model ----
(***************************************************************************)
(* Model of the clockwise testbed executor (src/src/testing/testbed.rs):   *)
(* Testbed::execute and the two worker threads it launches, the observer   *)
(* and the metering worker, synchronised by a reusable 3-party barrier, a  *)
(* shared current-test slot and two zero-capacity channels.                *)
(* Three further specifications over their own variables model the         *)
(* stimulus timeline (src/src/testing.rs: Test::new, Test::execute), the   *)
(* aggregate-memory frame decoder (src/common/src/mem.rs) and application  *)
(* load reconciliation (Testbed::load_apps with the Tock platform).        *)
(***************************************************************************)
EXTENDS Integers, Sequences, FiniteSets, TLC

\* ------------------------------------------------------------------ bounds
MaxTests == 2       \* longest test list given to execute
MaxEdges == 2       \* DUT output edges seen by the observer during one run
MaxSamples == 1     \* energy samples taken during one run

\* --------------------------------------------------------------- constants
BarrierParties == 3                 \* Barrier::new(3)

Parties == {"exec", "obs", "met"}
Workers == {"obs", "met"}
NoTest == 0                          \* Option<Test>::None in the slot
HostPins == {1, 2}                   \* pins the observer arms interrupts on
Meters == {"m1"}                     \* keys of the energy_meters map

\* Response::remapped(pin_mapping.get_mapping()): host pin -> target pin.
Remapped(r) == [pin |-> r.pin + 10, time |-> r.time]

\* pin_mapping.get_trace_pin_nos(), as compared with the remapped pin.
TracePins == {11}

VARIABLES
  tests,          \* the tests given to execute (their ids, in order)
  pc,             \* position of each thread
  idx,            \* index of the executor's current test
  current_test,   \* Arc<RwLock<Option<Test>>>
  waiting,        \* threads blocked inside barrier.wait()
  test_results,   \* Vec<Evaluation> of the executor
  now,            \* latest instant the monotonic clock has returned
  platform_spec,  \* executor: reconfigure returned a Spec for this test
  exec_result,    \* executor: Result<Execution> of test.execute
  responses,      \* executor: responses received from the observer
  traces,         \* executor: responses on trace pins (given to reconstruct)
  other_gpio,     \* executor: all other responses
  energy_data,    \* executor: samples received, per meter
  obs_test,       \* observer: test read from the slot
  obs_responses,  \* observer: Vec<Response> filled by observe
  met_test,       \* metering: test read from the slot
  need_metering,  \* metering: result of prep_meter
  samples,        \* metering: HashMap<String, Vec<f32>>
  met_queue,      \* metering: messages still to send, in iteration order
  waitCalls,      \* history: number of barrier.wait() calls of each thread
  published,      \* history: tests written to the slot
  readLog,        \* history: tests each worker read from the slot
  noneSent,       \* history: number of None sentinels each worker sent
  recvLog,        \* history: per evaluation, the responses the executor received
  releases,       \* history: number of times the barrier released
  panic_at,       \* history: where a thread panicked ("" if it did not)
  nEdges,         \* history: edges recorded so far
  nSamples        \* history: samples taken so far

VARIABLES
  \* --- stimulus timeline (TimelineSpec)
  tl_ops,         \* the operations given to Test::new, in the order given
  actions,        \* Test.actions: the heap's underlying vector
  tl_pc,          \* position inside Test::new / Test::execute
  tl_i,           \* number of timeline entries already taken from the iterator
  tl_now,         \* latest instant Instant::now() returned
  t0,             \* the start instant passed to execute
  driven,         \* history: operations driven, with the instant last read
  duration,       \* Execution.duration of a successful execute
  \* --- frame decoder (DecodeSpec)
  frame,          \* the byte slice given to StreamOperation::try_from
  decoded,        \* its outcome
  \* --- load reconciliation (LoadSpec)
  loaded_apps,      \* Tock.loaded_apps
  app_ids,          \* test.get_app_ids()
  currently_loaded, \* load_apps: snapshot returned by loaded_software()
  ld_pc,            \* position inside load_apps
  unload_seen,      \* apps the first loop has visited
  load_seen,        \* apps the second loop has visited
  ld_log            \* history: platform calls made, with their outcome

VARIABLES
  \* --- bit-level parsers (ParseSpec)
  parse_input,    \* the (&[u8], usize) input: bytes and bit offset
  parse_fn,       \* the parser applied ("" before the call)
  parsed,         \* its IResult
  \* --- INA219 driver (InaSpec)
  ina_pc,         \* position inside current_draw / read_current / read
  ina_out,        \* the buffer `out` of read
  ina_read,       \* the Result returned by read
  ina_draw        \* what current_draw returned

timelineVars == <<tl_ops, actions, tl_pc, tl_i, tl_now, t0, driven, duration>>
decodeVars == <<frame, decoded>>
loadVars == <<loaded_apps, app_ids, currently_loaded, ld_pc, unload_seen,
              load_seen, ld_log>>
testbedVars == <<tests, pc, idx, current_test, waiting, test_results, now,
          platform_spec, exec_result, responses, traces, other_gpio,
          energy_data, obs_test, obs_responses, met_test, need_metering,
          samples, met_queue, waitCalls, published, readLog, noneSent,
          recvLog, releases, panic_at, nEdges, nSamples>>
parseVars == <<parse_input, parse_fn, parsed>>
inaVars == <<ina_pc, ina_out, ina_read, ina_draw>>
\* The variables of the specifications other than the testbed's.
componentVars == <<timelineVars, decodeVars, loadVars, parseVars, inaVars>>

vars == <<timelineVars, decodeVars, loadVars, parseVars, inaVars, tests, pc, idx, current_test, waiting, test_results, now,
          platform_spec, exec_result, responses, traces, other_gpio,
          energy_data, obs_test, obs_responses, met_test, need_metering,
          samples, met_queue, waitCalls, published, readLog, noneSent,
          recvLog, releases, panic_at, nEdges, nSamples>>

execVars == <<platform_spec, exec_result, responses, traces, other_gpio,
              energy_data>>
obsVars == <<obs_test, obs_responses>>
metVars == <<met_test, need_metering, samples, met_queue>>
histVars == <<waitCalls, published, readLog, noneSent, recvLog, releases,
              panic_at, nEdges, nSamples>>

\* ----------------------------------------------------------------- helpers
EmptySamples == [m \in Meters |-> <<>>]
NoExecution == [ok |-> FALSE, start |-> 0]

IsTracePin(pin) == pin \in TracePins

\* Variant: the first half of the partition, latest response first.
TracePart_Reversed(rs) ==
  LET t == SelectSeq(rs, LAMBDA r : IsTracePin(r.pin))
  IN [i \in 1..Len(t) |-> t[Len(t) + 1 - i]]

\* responses.into_iter().partition(|r| trace_pins.contains_key(&r.get_pin())):
\* the first half, in arrival order.
TracePart(rs) == SelectSeq(rs, LAMBDA r : IsTracePin(r.pin))

\* Variant: the second half is the whole list, trace responses not removed.
OtherPart_Unfiltered(rs) == rs

\* The second half of the partition, in arrival order.
OtherPart(rs) == SelectSeq(rs, LAMBDA r : ~IsTracePin(r.pin))

Goto(p, l) == pc' = [pc EXCEPT ![p] = l]

\* Instant::now(): the monotonic clock, modelled by the order of its reads;
\* a read returns an instant later than every instant read before it.
ClockRead == now + 1

\* The receiving halves of both channels are locals of execute: they are
\* dropped when execute returns or unwinds.
ReceiversDropped == pc["exec"] \in {"e_ret_ok", "e_ret_err", "panicked"}
ThreadEnded(w) == pc[w] \in {"exit", "panicked"}
\* let meters = meters.lock().unwrap() is the first statement of the metering
\* closure and the guard is a local of the closure, not of the loop body: the
\* mutex is held from the start of the thread until the closure ends.
MetersLocked == pc["met"] \notin {"idle", "unspawned", "exit", "panicked"}

\* The RwLock read guard taken in `if let Some(ref test) = *slot.read()` lives
\* to the end of the if-let: the observer holds it until its sentinel is
\* sent, the metering worker until it leaves the if-let before "done".
ReadHolders ==
  {w \in Workers :
     \/ w = "obs" /\ pc[w] \in {"prep", "go", "observe", "done", "clear", "send"}
     \/ w = "met" /\ pc[w] \in {"prep", "go", "meter"}}

\* Evaluation::failed(test, spec, err)
FailedEval(id, spec) ==
  [test_id |-> id, outcome |-> "Failed", spec |-> spec, start |-> 0,
   gpio_responses |-> <<>>, trace_edges |-> <<>>, energy |-> EmptySamples]

\* Evaluation::new(test, spec, exec_result, other_gpio, traces, energy_data)
NewEval(id, res, gpio, tr, en) ==
  [test_id |-> id, outcome |-> IF res.ok THEN "Completed" ELSE "Errored",
   spec |-> TRUE, start |-> res.start,
   gpio_responses |-> gpio, trace_edges |-> tr, energy |-> en]

\* ------------------------------------------------ components not in use
\* Each specification runs one component; the variables of the others keep
\* these values throughout.
TimelineIdle ==
  /\ tl_ops = <<>> /\ actions = <<>> /\ tl_pc = "idle" /\ tl_i = 0
  /\ tl_now = 0 /\ t0 = 0 /\ driven = <<>> /\ duration = 0
DecodeIdle == frame = <<>> /\ decoded = [kind |-> "Idle"]
LoadIdle ==
  /\ loaded_apps = {} /\ app_ids = {} /\ currently_loaded = {}
  /\ ld_pc = "idle" /\ unload_seen = {} /\ load_seen = {} /\ ld_log = <<>>
ParseIdle ==
  /\ parse_input = [s |-> <<>>, off |-> 0] /\ parse_fn = ""
  /\ parsed = [kind |-> "Idle"]
InaIdle ==
  /\ ina_pc = "idle" /\ ina_out = <<0, 0>>
  /\ ina_read = [kind |-> "None"] /\ ina_draw = [kind |-> "None"]
TestbedIdle ==
  /\ tests = <<>>
  /\ pc = [p \in Parties |-> "idle"]
  /\ idx = 0
  /\ current_test = NoTest
  /\ waiting = {}
  /\ test_results = <<>>
  /\ now = 0
  /\ platform_spec = FALSE
  /\ exec_result = NoExecution
  /\ responses = <<>>
  /\ traces = <<>>
  /\ other_gpio = <<>>
  /\ energy_data = EmptySamples
  /\ obs_test = NoTest
  /\ obs_responses = <<>>
  /\ met_test = NoTest
  /\ need_metering = FALSE
  /\ samples = EmptySamples
  /\ met_queue = <<>>
  /\ waitCalls = [p \in Parties |-> 0]
  /\ published = <<>>
  /\ readLog = [w \in Workers |-> <<>>]
  /\ noneSent = [w \in Workers |-> 0]
  /\ recvLog = <<>>
  /\ releases = 0
  /\ panic_at = [p \in Parties |-> ""]
  /\ nEdges = 0
  /\ nSamples = 0

\* -------------------------------------------------------------------- Init
Init ==
  /\ TimelineIdle /\ DecodeIdle /\ LoadIdle /\ ParseIdle /\ InaIdle
  /\ tests \in {[i \in 1..n |-> i] : n \in 0..MaxTests}
  /\ pc = [p \in Parties |-> IF p = "exec" THEN "e_launch_obs" ELSE "unspawned"]
  /\ idx = 0
  /\ current_test = NoTest
  /\ waiting = {}
  /\ test_results = <<>>
  /\ now = 0
  /\ platform_spec = FALSE
  /\ exec_result = NoExecution
  /\ responses = <<>>
  /\ traces = <<>>
  /\ other_gpio = <<>>
  /\ energy_data = EmptySamples
  /\ obs_test = NoTest
  /\ obs_responses = <<>>
  /\ met_test = NoTest
  /\ need_metering = FALSE
  /\ samples = EmptySamples
  /\ met_queue = <<>>
  /\ waitCalls = [p \in Parties |-> 0]
  /\ published = <<>>
  /\ readLog = [w \in Workers |-> <<>>]
  /\ noneSent = [w \in Workers |-> 0]
  /\ recvLog = <<>>
  /\ releases = 0
  /\ panic_at = [p \in Parties |-> ""]
  /\ nEdges = 0
  /\ nSamples = 0

\* ---------------------------------------------------------------- executor
\* launch_observer(..)? succeeded: the observer thread runs.
ExecLaunchObserver ==
  /\ pc["exec"] = "e_launch_obs"
  /\ pc' = [pc EXCEPT !["exec"] = "e_launch_met", !["obs"] = "ready"]
  /\ UNCHANGED <<componentVars, tests, idx, current_test, waiting, test_results, now,
                 execVars, obsVars, metVars, histVars>>

\* get_gpio_outputs()? or the spawn failed: execute returns the error.
ExecLaunchObserverFail ==
  /\ pc["exec"] = "e_launch_obs"
  /\ Goto("exec", "e_ret_err")
  /\ UNCHANGED <<componentVars, tests, idx, current_test, waiting, test_results, now,
                 execVars, obsVars, metVars, histVars>>

\* launch_metering(..)? succeeded: the metering thread locks the meters and
\* builds its empty sample buffers.
ExecLaunchMetering ==
  /\ pc["exec"] = "e_launch_met"
  /\ pc' = [pc EXCEPT !["exec"] = "e_next", !["met"] = "ready"]
  /\ samples' = EmptySamples
  /\ UNCHANGED <<componentVars, tests, idx, current_test, waiting, test_results, now,
                 execVars, obsVars, met_test, need_metering, met_queue,
                 histVars>>

\* The metering spawn failed: execute returns, the observer is already running.
ExecLaunchMeteringFail ==
  /\ pc["exec"] = "e_launch_met"
  /\ Goto("exec", "e_ret_err")
  /\ UNCHANGED <<componentVars, tests, idx, current_test, waiting, test_results, now,
                 execVars, obsVars, metVars, histVars>>

\* for test in tests
ExecNextTest ==
  /\ pc["exec"] = "e_next"
  /\ IF idx < Len(tests)
     THEN idx' = idx + 1 /\ Goto("exec", "e_reconfigure")
     ELSE idx' = idx /\ Goto("exec", "e_final_write")
  /\ UNCHANGED <<componentVars, tests, current_test, waiting, test_results, now,
                 execVars, obsVars, metVars, histVars>>

\* platform_support.reconfigure returned Ok(spec)
ExecReconfigure ==
  /\ pc["exec"] = "e_reconfigure"
  /\ platform_spec' = TRUE
  /\ Goto("exec", "e_load")
  /\ UNCHANGED <<componentVars, tests, idx, current_test, waiting, test_results, now,
                 exec_result, responses, traces, other_gpio, energy_data,
                 obsVars, metVars, histVars>>

\* Variant: the reconfigure error path continues without pushing an evaluation.
ExecReconfigureFail_NoPush ==
  /\ pc["exec"] = "e_reconfigure"
  /\ Goto("exec", "e_next")
  /\ UNCHANGED <<componentVars, tests, idx, current_test, waiting, test_results, now,
                 execVars, obsVars, metVars, histVars>>

\* reconfigure returned Err: push Evaluation::failed(test, None, ..); continue
ExecReconfigureFail ==
  /\ pc["exec"] = "e_reconfigure"
  /\ test_results' = Append(test_results, FailedEval(tests[idx], FALSE))
  /\ recvLog' = Append(recvLog, <<>>)
  /\ Goto("exec", "e_next")
  /\ UNCHANGED <<componentVars, tests, idx, current_test, waiting, now,
                 execVars, obsVars, metVars, waitCalls, published, readLog, noneSent,
                 releases, panic_at, nEdges, nSamples>>

\* load_apps returned Ok
ExecLoadApps ==
  /\ pc["exec"] = "e_load"
  /\ Goto("exec", "e_publish")
  /\ UNCHANGED <<componentVars, tests, idx, current_test, waiting, test_results, now,
                 execVars, obsVars, metVars, histVars>>

\* Variant: the load error path writes the test to the slot before continuing.
ExecLoadAppsFail_Publishes ==
  /\ pc["exec"] = "e_load"
  /\ test_results' = Append(test_results, FailedEval(tests[idx], TRUE))
  /\ recvLog' = Append(recvLog, <<>>)
  /\ current_test' = tests[idx]
  /\ Goto("exec", "e_next")
  /\ UNCHANGED <<componentVars, tests, idx, waiting, now,
                 execVars, obsVars, metVars, waitCalls, published, readLog,
                 noneSent, releases, panic_at, nEdges, nSamples>>

\* load_apps returned Err: push Evaluation::failed(test, Some(spec), ..); continue
ExecLoadAppsFail ==
  /\ pc["exec"] = "e_load"
  /\ test_results' = Append(test_results, FailedEval(tests[idx], TRUE))
  /\ recvLog' = Append(recvLog, <<>>)
  /\ Goto("exec", "e_next")
  /\ UNCHANGED <<componentVars, tests, idx, current_test, waiting, now,
                 execVars, obsVars, metVars, waitCalls, published, readLog, noneSent,
                 releases, panic_at, nEdges, nSamples>>

\* Variant: the slot is written for the first published test only.
ExecPublish_Stale ==
  /\ pc["exec"] = "e_publish"
  /\ ReadHolders = {}
  /\ current_test' = IF current_test = NoTest THEN tests[idx] ELSE current_test
  /\ published' = Append(published, tests[idx])
  /\ Goto("exec", "e_inputs")
  /\ UNCHANGED <<componentVars, tests, idx, waiting, test_results, now, execVars, obsVars,
                 metVars, waitCalls, readLog, noneSent, recvLog, releases,
                 panic_at, nEdges, nSamples>>

\* *current_test.write().unwrap() = Some(test.clone())
ExecPublish ==
  /\ pc["exec"] = "e_publish"
  /\ ReadHolders = {}
  /\ current_test' = tests[idx]
  /\ published' = Append(published, tests[idx])
  /\ Goto("exec", "e_inputs")
  /\ UNCHANGED <<componentVars, tests, idx, waiting, test_results, now, execVars, obsVars,
                 metVars, waitCalls, readLog, noneSent, panic_at, nEdges,
                 nSamples,
                 recvLog, releases>>

\* pin_mapping.get_gpio_inputs()? returned Ok
ExecGetInputs ==
  /\ pc["exec"] = "e_inputs"
  /\ Goto("exec", "e_ready")
  /\ UNCHANGED <<componentVars, tests, idx, current_test, waiting, test_results, now,
                 execVars, obsVars, metVars, histVars>>

\* get_gpio_inputs()? returned Err: execute returns it
ExecGetInputsFail ==
  /\ pc["exec"] = "e_inputs"
  /\ Goto("exec", "e_ret_err")
  /\ UNCHANGED <<componentVars, tests, idx, current_test, waiting, test_results, now,
                 execVars, obsVars, metVars, histVars>>

\* test.execute(Instant::now(), &mut inputs) returned Ok(execution): the
\* start instant is the clock value read when the call is made.
ExecStimulus ==
  /\ pc["exec"] = "e_stimulus"
  /\ now' = ClockRead
  /\ exec_result' = [ok |-> TRUE, start |-> ClockRead]
  /\ Goto("exec", "e_done")
  /\ UNCHANGED <<componentVars, tests, idx, current_test, waiting, test_results,
                 platform_spec, responses, traces, other_gpio, energy_data,
                 obsVars, metVars, histVars>>

\* test.execute(Instant::now(), &mut inputs) returned Err
ExecStimulusFail ==
  /\ pc["exec"] = "e_stimulus"
  /\ exec_result' = NoExecution
  /\ Goto("exec", "e_done")
  /\ UNCHANGED <<componentVars, tests, idx, current_test, waiting, test_results, now,
                 platform_spec, responses, traces, other_gpio, energy_data,
                 obsVars, metVars, histVars>>

\* -------------------------------------------------------- barrier (3-party)
WaitPoints(p) ==
  IF p = "exec" THEN {"e_ready", "e_go", "e_done", "e_final_wait"}
  ELSE {"ready", "go", "done"}

\* Variant: the executor goes on to the stimulus once the ready rendezvous
\* releases, without the go rendezvous.
AfterWait_SkipGo(p) ==
  IF p = "exec"
  THEN CASE pc[p] = "e_ready" -> "e_stimulus"
         [] pc[p] = "e_go" -> "e_stimulus"
         [] pc[p] = "e_done" -> "e_drain_obs"
         [] OTHER -> "e_join_obs"
  ELSE CASE pc[p] = "ready" -> "read"
         [] pc[p] = "go" -> IF p = "obs" THEN "observe"
                            ELSE IF need_metering THEN "meter" ELSE "done"
         [] OTHER -> IF p = "obs" THEN "clear" ELSE "collect"

\* Variant: the metering worker samples after the go rendezvous whatever
\* prep_meter returned.
AfterWait_AlwaysMeters(p) ==
  IF p = "exec"
  THEN CASE pc[p] = "e_ready" -> "e_go"
         [] pc[p] = "e_go" -> "e_stimulus"
         [] pc[p] = "e_done" -> "e_drain_obs"
         [] OTHER -> "e_join_obs"
  ELSE CASE pc[p] = "ready" -> "read"
         [] pc[p] = "go" -> IF p = "obs" THEN "observe" ELSE "meter"
         [] OTHER -> IF p = "obs" THEN "clear" ELSE "collect"

\* Where a thread continues when barrier.wait() returns.
AfterWait(p) ==
  IF p = "exec"
  THEN CASE pc[p] = "e_ready" -> "e_go"
         [] pc[p] = "e_go" -> "e_stimulus"
         [] pc[p] = "e_done" -> "e_drain_obs"
         [] OTHER -> "e_join_obs"
  ELSE CASE pc[p] = "ready" -> "read"
         [] pc[p] = "go" -> IF p = "obs" THEN "observe"
                            ELSE IF need_metering THEN "meter" ELSE "done"
         [] OTHER -> IF p = "obs" THEN "clear" ELSE "collect"

\* Barrier::wait: the last of the three arrivals releases all of them and
\* resets the count; the others block until then.
BarrierWait(p) ==
  /\ pc[p] \in WaitPoints(p)
  /\ p \notin waiting
  /\ waitCalls' = [waitCalls EXCEPT ![p] = @ + 1]
  /\ IF Cardinality(waiting) + 1 = BarrierParties
     THEN /\ waiting' = {}
          /\ pc' = [q \in Parties |->
                      IF q \in waiting \cup {p} THEN AfterWait(q) ELSE pc[q]]
          /\ releases' = releases + 1
     ELSE /\ waiting' = waiting \cup {p}
          /\ UNCHANGED <<pc, releases>>
  /\ UNCHANGED <<componentVars, tests, idx, current_test, test_results, now, execVars,
                 obsVars, metVars, published, readLog, noneSent, recvLog,
                 panic_at, nEdges, nSamples>>

\* ---------------------------------------------------------------- observer
\* *test_container.read().unwrap(): Some(test), or None -> break
ObsRead ==
  /\ pc["obs"] = "read"
  /\ IF current_test = NoTest
     THEN /\ Goto("obs", "exit")
          /\ UNCHANGED <<obs_test, readLog>>
     ELSE /\ Goto("obs", "prep")
          /\ obs_test' = current_test
          /\ readLog' = [readLog EXCEPT !["obs"] = Append(@, current_test)]
  /\ UNCHANGED <<componentVars, tests, idx, current_test, waiting, test_results, now,
                 execVars, obs_responses, metVars, waitCalls, published,
                 noneSent, panic_at, nEdges, nSamples,
                 recvLog, releases>>

\* test.prep_observe(..).unwrap() and outputs.get_pin(..).unwrap() succeeded
ObsPrep ==
  /\ pc["obs"] = "prep"
  /\ Goto("obs", "go")
  /\ UNCHANGED <<componentVars, tests, idx, current_test, waiting, test_results, now,
                 execVars, obsVars, metVars, histVars>>

\* A thread panics: it unwinds and never runs again.
Panic(p, where) ==
  /\ Goto(p, "panicked")
  /\ panic_at' = [panic_at EXCEPT ![p] = where]

\* prep_observe or get_pin returned an error: .unwrap() panics
ObsPrepFail ==
  /\ pc["obs"] = "prep"
  /\ Panic("obs", "prep_observe")
  /\ UNCHANGED <<componentVars, tests, idx, current_test, waiting, test_results, now,
                 execVars, obsVars, metVars, waitCalls, published, readLog,
                 noneSent, nEdges, nSamples,
                 recvLog, releases>>

\* test.observe: an interrupt fires, Response{time: now(), pin} is pushed
ObsRecord ==
  /\ pc["obs"] = "observe"
  /\ nEdges < MaxEdges
  /\ now' = ClockRead
  /\ \E pin \in HostPins :
       obs_responses' = Append(obs_responses,
                               [pin |-> pin, time |-> ClockRead])
  /\ nEdges' = nEdges + 1
  /\ UNCHANGED <<componentVars, tests, pc, idx, current_test, waiting, test_results,
                 execVars, obs_test, metVars, waitCalls, published, readLog,
                 noneSent, panic_at, nSamples,
                 recvLog, releases>>

\* test.observe(..).unwrap() returned Ok
ObsObserveReturn ==
  /\ pc["obs"] = "observe"
  /\ Goto("obs", "done")
  /\ UNCHANGED <<componentVars, tests, idx, current_test, waiting, test_results, now,
                 execVars, obsVars, metVars, histVars>>

\* test.observe returned an error: .unwrap() panics
ObsObserveFail ==
  /\ pc["obs"] = "observe"
  /\ Panic("obs", "observe")
  /\ UNCHANGED <<componentVars, tests, idx, current_test, waiting, test_results, now,
                 execVars, obsVars, metVars, waitCalls, published, readLog,
                 noneSent, nEdges, nSamples,
                 recvLog, releases>>

\* for pin in &mut outputs { pin.clear_interrupt().unwrap(); } succeeded
ObsClear ==
  /\ pc["obs"] = "clear"
  /\ Goto("obs", "send")
  /\ UNCHANGED <<componentVars, tests, idx, current_test, waiting, test_results, now,
                 execVars, obsVars, metVars, histVars>>

\* clear_interrupt returned an error: .unwrap() panics
ObsClearFail ==
  /\ pc["obs"] = "clear"
  /\ Panic("obs", "clear_interrupt")
  /\ UNCHANGED <<componentVars, tests, idx, current_test, waiting, test_results, now,
                 execVars, obsVars, metVars, waitCalls, published, readLog,
                 noneSent, nEdges, nSamples,
                 recvLog, releases>>

\* response_schannel.send(Some(r)) meets observer_rchannel.recv(); the
\* executor remaps the response and pushes it.
ObsSendSome ==
  /\ pc["obs"] = "send"
  /\ pc["exec"] = "e_drain_obs"
  /\ obs_responses # <<>>
  /\ responses' = Append(responses, Remapped(Head(obs_responses)))
  /\ obs_responses' = Tail(obs_responses)
  /\ UNCHANGED <<componentVars, tests, pc, idx, current_test, waiting, test_results, now,
                 platform_spec, exec_result, traces, other_gpio, energy_data,
                 obs_test, metVars, histVars>>

\* response_schannel.send(None) meets recv(): the executor's loop ends, the
\* observer goes back to the top of its loop.
ObsSendNone ==
  /\ pc["obs"] = "send"
  /\ pc["exec"] = "e_drain_obs"
  /\ obs_responses = <<>>
  /\ pc' = [pc EXCEPT !["obs"] = "ready", !["exec"] = "e_partition"]
  /\ noneSent' = [noneSent EXCEPT !["obs"] = @ + 1]
  /\ UNCHANGED <<componentVars, tests, idx, current_test, waiting, test_results, now,
                 execVars, obsVars, metVars, waitCalls, published, readLog,
                 panic_at, nEdges, nSamples,
                 recvLog, releases>>

\* ---------------------------------------------------------------- metering
\* *test_container.read().unwrap(): Some(test), or None -> break
MetRead ==
  /\ pc["met"] = "read"
  /\ IF current_test = NoTest
     THEN /\ Goto("met", "exit")
          /\ UNCHANGED <<met_test, readLog>>
     ELSE /\ Goto("met", "prep")
          /\ met_test' = current_test
          /\ readLog' = [readLog EXCEPT !["met"] = Append(@, current_test)]
  /\ UNCHANGED <<componentVars, tests, idx, current_test, waiting, test_results, now,
                 execVars, obsVars, need_metering, samples, met_queue,
                 waitCalls, published, noneSent, panic_at, nEdges, nSamples,
                 recvLog, releases>>

\* Test::prep_meter: the buffers it leaves for this test.
PrepMeterBuffers(s) == EmptySamples

\* test.prep_meter(&meters, &mut samples).unwrap() returned Ok(need)
MetPrep ==
  /\ pc["met"] = "prep"
  /\ \E need \in BOOLEAN : need_metering' = need
  /\ samples' = PrepMeterBuffers(samples)
  /\ Goto("met", "go")
  /\ UNCHANGED <<componentVars, tests, idx, current_test, waiting, test_results, now,
                 execVars, obsVars, met_test, met_queue, histVars>>

\* prep_meter returned an error: .unwrap() panics
MetPrepFail ==
  /\ pc["met"] = "prep"
  /\ Panic("met", "prep_meter")
  /\ UNCHANGED <<componentVars, tests, idx, current_test, waiting, test_results, now,
                 execVars, obsVars, metVars, waitCalls, published, readLog,
                 noneSent, nEdges, nSamples,
                 recvLog, releases>>

\* test.meter: one more sample is appended to a meter's buffer
MetSample ==
  /\ pc["met"] = "meter"
  /\ nSamples < MaxSamples
  /\ \E m \in Meters :
       samples' = [samples EXCEPT ![m] = Append(@, nSamples + 1)]
  /\ nSamples' = nSamples + 1
  /\ UNCHANGED <<componentVars, tests, pc, idx, current_test, waiting, test_results, now,
                 execVars, obsVars, met_test, need_metering, met_queue,
                 waitCalls, published, readLog, noneSent, panic_at, nEdges,
                 recvLog, releases>>

\* test.meter returned. need_metering keeps the value prep_meter returned for
\* the test until the end of the loop iteration.
MetMeterReturn ==
  /\ pc["met"] = "meter"
  /\ Goto("met", "done")
  /\ UNCHANGED <<componentVars, tests, idx, current_test, waiting, test_results, now,
                 execVars, obsVars, metVars, histVars>>

\* The messages of one pass over the map, the meters taken in order `ord`.
RECURSIVE MessagesIn(_, _)
MessagesIn(ord, s) ==
  IF ord = <<>> THEN <<>>
  ELSE [i \in 1..Len(s[Head(ord)]) |->
          [meter_id |-> Head(ord), sample |-> s[Head(ord)][i]]]
       \o MessagesIn(Tail(ord), s)

MeterOrders ==
  {o \in [1..Cardinality(Meters) -> Meters] :
     \A i, j \in DOMAIN o : i # j => o[i] # o[j]}

\* for (meter_id, samples) in &samples: HashMap iteration, in some order
MetCollect ==
  /\ pc["met"] = "collect"
  /\ \E ord \in MeterOrders : met_queue' = MessagesIn(ord, samples)
  /\ Goto("met", "send")
  /\ UNCHANGED <<componentVars, tests, idx, current_test, waiting, test_results, now,
                 execVars, obsVars, met_test, need_metering, samples,
                 histVars>>

\* Variant: the executor takes a sample while it is still receiving from the
\* observer channel.
MetSendSome_Early ==
  /\ pc["met"] = "send"
  /\ pc["exec"] \in {"e_drain_obs", "e_drain_energy"}
  /\ met_queue # <<>>
  /\ energy_data' = [energy_data EXCEPT ![Head(met_queue).meter_id] =
                        Append(@, Head(met_queue).sample)]
  /\ met_queue' = Tail(met_queue)
  /\ UNCHANGED <<componentVars, tests, pc, idx, current_test, waiting, test_results, now,
                 platform_spec, exec_result, responses, traces, other_gpio,
                 obsVars, met_test, need_metering, samples, histVars>>

\* energy_schannel.send(Some((meter_id, sample))) meets energy_rchannel.recv()
MetSendSome ==
  /\ pc["met"] = "send"
  /\ pc["exec"] = "e_drain_energy"
  /\ met_queue # <<>>
  /\ energy_data' = [energy_data EXCEPT ![Head(met_queue).meter_id] =
                        Append(@, Head(met_queue).sample)]
  /\ met_queue' = Tail(met_queue)
  /\ UNCHANGED <<componentVars, tests, pc, idx, current_test, waiting, test_results, now,
                 platform_spec, exec_result, responses, traces, other_gpio,
                 obsVars, met_test, need_metering, samples, histVars>>

\* energy_schannel.send(None) meets recv(): the executor's loop ends, the
\* metering worker goes back to the top of its loop.
MetSendNone ==
  /\ pc["met"] = "send"
  /\ pc["exec"] = "e_drain_energy"
  /\ met_queue = <<>>
  /\ pc' = [pc EXCEPT !["met"] = "ready", !["exec"] = "e_push"]
  /\ noneSent' = [noneSent EXCEPT !["met"] = @ + 1]
  /\ need_metering' = FALSE
  /\ UNCHANGED <<componentVars, tests, idx, current_test, waiting, test_results, now,
                 execVars, obsVars, met_test, samples, met_queue,
                 waitCalls, published, readLog,
                 panic_at, nEdges, nSamples,
                 recvLog, releases>>

\* send(..).unwrap() with the receiver dropped: the metering worker panics
MetSendFail ==
  /\ pc["met"] = "send"
  /\ ReceiversDropped
  /\ Panic("met", "send")
  /\ UNCHANGED <<componentVars, tests, idx, current_test, waiting, test_results, now,
                 execVars, obsVars, metVars, waitCalls, published, readLog,
                 noneSent, nEdges, nSamples,
                 recvLog, releases>>

\* ------------------------------------------------------ executor, continued
\* observer_rchannel.recv()? with the sender dropped: execute returns Comm.
\* (energy_rchannel.recv()? cannot fail this way: the metering worker has no
\* fallible call between the done rendezvous and its sentinel; for the same
\* reason the observer never sends after the receivers are dropped.)
ExecRecvObserverErr ==
  /\ pc["exec"] = "e_drain_obs"
  /\ ThreadEnded("obs")
  /\ Goto("exec", "e_ret_err")
  /\ UNCHANGED <<componentVars, tests, idx, current_test, waiting, test_results, now,
                 execVars, obsVars, metVars, histVars>>

\* partition by trace pin; the TRACE RESPONSE loop unwraps exec_result for
\* every trace response; then trace::reconstruct(&traces, ..)
ExecPartition ==
  /\ pc["exec"] = "e_partition"
  /\ traces' = TracePart(responses)
  /\ other_gpio' = OtherPart(responses)
  /\ IF traces' # <<>> /\ ~exec_result.ok
     THEN Panic("exec", "unwrap")
     ELSE Goto("exec", "e_drain_energy") /\ UNCHANGED panic_at
  /\ UNCHANGED <<componentVars, tests, idx, current_test, waiting, test_results, now,
                 platform_spec, exec_result, responses, energy_data,
                 obsVars, metVars, waitCalls, published, readLog, noneSent,
                 nEdges, nSamples,
                 recvLog, releases>>

\* test_results.push(Evaluation::new(..)); the iteration's locals end
ExecPushEval ==
  /\ pc["exec"] = "e_push"
  /\ test_results' = Append(test_results,
        NewEval(tests[idx], exec_result, other_gpio, traces, energy_data))
  /\ platform_spec' = FALSE
  /\ exec_result' = NoExecution
  /\ responses' = <<>>
  /\ traces' = <<>>
  /\ other_gpio' = <<>>
  /\ energy_data' = EmptySamples
  /\ recvLog' = Append(recvLog, responses)
  /\ Goto("exec", "e_next")
  /\ UNCHANGED <<componentVars, tests, idx, current_test, waiting, now, obsVars, metVars,
                 waitCalls, published, readLog, noneSent,
                 releases, panic_at, nEdges, nSamples>>

\* *current_test.write().unwrap() = None
ExecFinalWrite ==
  /\ pc["exec"] = "e_final_write"
  /\ ReadHolders = {}
  /\ current_test' = NoTest
  /\ Goto("exec", "e_final_wait")
  /\ UNCHANGED <<componentVars, tests, idx, waiting, test_results, now, execVars, obsVars,
                 metVars, histVars>>

\* watch_thread.join()
ExecJoinObserver ==
  /\ pc["exec"] = "e_join_obs"
  /\ ThreadEnded("obs")
  /\ Goto("exec", "e_join_met")
  /\ UNCHANGED <<componentVars, tests, idx, current_test, waiting, test_results, now,
                 execVars, obsVars, metVars, histVars>>

\* energy_thread.join(); Ok(test_results)
ExecJoinMetering ==
  /\ pc["exec"] = "e_join_met"
  /\ ThreadEnded("met")
  /\ Goto("exec", "e_ret_ok")
  /\ UNCHANGED <<componentVars, tests, idx, current_test, waiting, test_results, now,
                 execVars, obsVars, metVars, histVars>>

\* -------------------------------------------------------------------- Next
Next ==
  \/ ExecLaunchObserver \/ ExecLaunchObserverFail
  \/ ExecLaunchMetering \/ ExecLaunchMeteringFail
  \/ ExecNextTest
  \/ ExecReconfigure \/ ExecReconfigureFail
  \/ ExecLoadApps \/ ExecLoadAppsFail
  \/ ExecPublish
  \/ ExecGetInputs \/ ExecGetInputsFail
  \/ ExecStimulus \/ ExecStimulusFail
  \/ ExecRecvObserverErr
  \/ ExecPartition
  \/ ExecPushEval
  \/ ExecFinalWrite
  \/ ExecJoinObserver \/ ExecJoinMetering
  \/ \E p \in Parties : BarrierWait(p)
  \/ ObsRead \/ ObsPrep \/ ObsPrepFail
  \/ ObsRecord \/ ObsObserveReturn \/ ObsObserveFail
  \/ ObsClear \/ ObsClearFail
  \/ ObsSendSome \/ ObsSendNone
  \/ MetRead \/ MetPrep \/ MetPrepFail
  \/ MetSample \/ MetMeterReturn
  \/ MetCollect
  \/ MetSendSome \/ MetSendNone \/ MetSendFail

Spec == Init /\ [][Next]_vars

\* ======================================================= stimulus timeline
\* src/src/testing.rs: Test::new collects the operations into a
\* BinaryHeap<Reverse<Operation>>; Test::execute walks self.actions.iter(),
\* spin-waits for each entry's instant and drives its pin.
MaxActions == 3     \* longest operation list given to Test::new
MaxTimeMs == 2      \* largest Operation.time, in milliseconds

StartInstants == {0, 1}              \* values of the t0 argument
OutputPins == {1, 2}                 \* pins the mapping holds as outputs
\* Signal::High(pin) / Signal::Low(pin); pin 3 is not in the mapping.
SignalSet ==
  {[level |-> "High", pin |-> 1], [level |-> "Low", pin |-> 2],
   [level |-> "High", pin |-> 3]}
Operations == [time : 0..MaxTimeMs, input : SignalSet]
OpLists == UNION {[1..n -> Operations] : n \in 0..MaxActions}
\* The clock is not followed past the instant every spin-wait has ended.
Horizon == MaxTimeMs + 2

\* impl Ord for Operation compares time only; Reverse swaps the operands.
ReverseLe(a, b) == b.time <= a.time
ReverseLt(a, b) == b.time < a.time
ReverseGe(a, b) == b.time >= a.time

\* Positions are 0-based as in the vector; sequences are 1-based.
SwapAt(data, i, j) ==
  [data EXCEPT ![i + 1] = data[j + 1], ![j + 1] = data[i + 1]]

\* BinaryHeap::sift_down_range(pos, end): move the element at pos down
\* below its greater child until it is in order.
RECURSIVE sift_down_range(_, _, _)
sift_down_range(data, pos, end) ==
  LET child == 2 * pos + 1 IN
  IF end >= 2 /\ child <= end - 2
  THEN LET c == IF ReverseLe(data[child + 1], data[child + 2])
                THEN child + 1 ELSE child
       IN IF ReverseGe(data[pos + 1], data[c + 1])
          THEN data
          ELSE sift_down_range(SwapAt(data, pos, c), c, end)
  ELSE IF child = end - 1 /\ ReverseLt(data[pos + 1], data[child + 1])
       THEN SwapAt(data, pos, child)
       ELSE data

\* BinaryHeap::rebuild: n = len / 2; while n > 0 { n -= 1; sift_down(n) }
RECURSIVE rebuild(_, _)
rebuild(data, n) ==
  IF n = 0 THEN data
  ELSE rebuild(sift_down_range(data, n - 1, Len(data)), n - 1)

\* ops.into_iter().map(|x| Reverse(*x)).collect(): the vector, made a heap.
CollectHeap(ops) == rebuild(ops, Len(ops) \div 2)

\* The instants Instant::now() may return after it returned n.
ClockReads(n) == {m \in {n, n + 1} : m <= Horizon}
\* t0 + Duration::from_millis(op.time) of the i-th entry the iterator yields
Target(i) == t0 + actions[i + 1].time
\* The head of the for loop after i entries: another entry, or the end.
LoopHead(acts, i) == IF i < Len(acts) THEN "spin" ELSE "finish"

\* Variant: the elapsed time is halved.
Elapsed_Halved(n, s) == (n - s) \div 2

\* Instant::now() - t0
Elapsed(n, s) == n - s

TimelineInit ==
  /\ tl_ops \in OpLists
  /\ t0 \in StartInstants
  /\ tl_now = t0
  /\ tl_pc = "new"
  /\ actions = <<>> /\ tl_i = 0 /\ driven = <<>> /\ duration = 0
  /\ DecodeIdle /\ LoadIdle /\ TestbedIdle /\ ParseIdle /\ InaIdle

\* Test::new, then the call of execute up to the head of its loop
TlNew ==
  /\ tl_pc = "new"
  /\ actions' = CollectHeap(tl_ops)
  /\ tl_pc' = LoopHead(CollectHeap(tl_ops), 0)
  /\ UNCHANGED <<tl_ops, tl_i, tl_now, t0, driven, duration,
                 decodeVars, loadVars, testbedVars, parseVars, inaVars>>

\* Variant: the pin is driven after one clock read, whatever it returned.
TlSpin_NoWait ==
  /\ tl_pc = "spin"
  /\ \E n \in ClockReads(tl_now) :
       /\ tl_now' = n
       /\ tl_pc' = "drive"
  /\ UNCHANGED <<tl_ops, actions, tl_i, t0, driven, duration,
                 decodeVars, loadVars, testbedVars, parseVars, inaVars>>

\* while Instant::now() < t { }: one evaluation of the loop condition
TlSpin ==
  /\ tl_pc = "spin"
  /\ \E n \in ClockReads(tl_now) :
       /\ tl_now' = n
       /\ tl_pc' = IF n < Target(tl_i) THEN "spin" ELSE "drive"
  /\ UNCHANGED <<tl_ops, actions, tl_i, t0, driven, duration,
                 decodeVars, loadVars, testbedVars, parseVars, inaVars>>

\* mapping.get_pin(pin)?.expect_output()?.set_high() / set_low()
TlDrive ==
  /\ tl_pc = "drive"
  /\ actions[tl_i + 1].input.pin \in OutputPins
  /\ driven' = Append(driven, [op |-> actions[tl_i + 1], at |-> tl_now])
  /\ tl_i' = tl_i + 1
  /\ tl_pc' = LoopHead(actions, tl_i + 1)
  /\ UNCHANGED <<tl_ops, actions, tl_now, t0, duration,
                 decodeVars, loadVars, testbedVars, parseVars, inaVars>>

\* get_pin or expect_output returned Err: execute returns it
TlDriveFail ==
  /\ tl_pc = "drive"
  /\ actions[tl_i + 1].input.pin \notin OutputPins
  /\ tl_pc' = "ret_err"
  /\ UNCHANGED <<tl_ops, actions, tl_i, tl_now, t0, driven, duration,
                 decodeVars, loadVars, testbedVars, parseVars, inaVars>>

\* Ok(Execution::new(Instant::now() - t0))
TlReturn ==
  /\ tl_pc = "finish"
  /\ \E n \in ClockReads(tl_now) :
       /\ tl_now' = n
       /\ duration' = Elapsed(n, t0)
  /\ tl_pc' = "ret_ok"
  /\ UNCHANGED <<tl_ops, actions, tl_i, t0, driven,
                 decodeVars, loadVars, testbedVars, parseVars, inaVars>>

TimelineNext ==
  \/ TlNew
  \/ TlSpin
  \/ TlDrive \/ TlDriveFail
  \/ TlReturn

TimelineSpec == TimelineInit /\ [][TimelineNext]_vars

\* ============================================================ frame decoder
\* src/common/src/mem.rs: StreamOperation::try_from(&[u8]).
MaxWords == 3       \* most u32 fields following byte 0 in a generated frame

\* Counter ids put on the wire: the five known ones and unknown ones from
\* both ends of the 7-bit range; byte 0 carries each with either op bit.
CounterVals == (0..7) \cup {126, 127}
Bytes0 == {op * 128 + id : op \in {0, 1}, id \in CounterVals}
Words == {7, 42, 258}                \* u32 values put on the wire
\* The four bytes a u32 has on the wire, least significant first.
WireBytes(w) ==
  <<w % 256, (w \div 256) % 256, (w \div 65536) % 256, (w \div 16777216) % 256>>
RECURSIVE WireWords(_)
WireWords(ws) ==
  IF ws = <<>> THEN <<>> ELSE WireBytes(Head(ws)) \o WireWords(Tail(ws))
\* Byte slices given to the decoder: an op/counter byte followed by up to
\* MaxWords u32 fields, complete or cut off after any number of bytes.
Frames ==
  LET full == {<<b>> \o WireWords(ws) :
                 b \in Bytes0,
                 ws \in UNION {[1..n -> Words] : n \in 0..MaxWords}}
  IN {<<>>} \cup UNION {{SubSeq(f, 1, n) : n \in 1..Len(f)} : f \in full}

\* extract_u32 on an iterator over data that has yielded pos bytes
extract_u32(data, pos) ==
  IF pos + 4 <= Len(data)
  THEN [ok |-> TRUE,
        val |-> data[pos + 1] + data[pos + 2] * 256 + data[pos + 3] * 65536
                + data[pos + 4] * 16777216,
        pos |-> pos + 4]
  ELSE [ok |-> FALSE, val |-> 0, pos |-> Len(data)]

EndedErr == [kind |-> "Err", error |-> "u32 ended", id |-> 0]

\* impl TryFrom<(u8, &[u8])> for CounterId
CounterId_try_from(counter_val, specifics) ==
  LET a == extract_u32(specifics, 0)
      b == extract_u32(specifics, a.pos)
      One(tag) == IF a.ok
                  THEN [kind |-> "Ok", tag |-> tag, pid |-> a.val, grant_no |-> 0]
                  ELSE EndedErr
  IN CASE counter_val = 1 -> One("PCB")
       [] counter_val = 2 -> One("UpcallQueue")
       [] counter_val = 3 -> One("GrantPointerTable")
       [] counter_val = 4 ->
            IF a.ok /\ b.ok
            THEN [kind |-> "Ok", tag |-> "Grant", pid |-> a.val,
                  grant_no |-> b.val]
            ELSE EndedErr
       [] counter_val = 5 -> One("CustomGrant")
       [] OTHER -> [kind |-> "Err", error |-> "counter not identified",
                    id |-> counter_val]

\* Variant: the operation bit is read the other way round.
OperationOf_Swapped(op_val) == IF op_val = 0 THEN "Add" ELSE "Set"

\* match op_val { 0 => Set(..), 1 => Add(..) }
OperationOf(op_val) == IF op_val = 0 THEN "Set" ELSE "Add"

\* impl TryFrom<&[u8]> for StreamOperation. data_it has yielded byte 0 when
\* the operand is read from it; the counter is read from its own slice
\* val[1..val.len().saturating_sub(4)], which panics when the range is
\* inverted (1 > end).
StreamOperation_try_from(val) ==
  IF Len(val) = 0
  THEN [kind |-> "Err", error |-> "no aggregate op-counter byte", id |-> 0]
  ELSE LET op_counter == val[1]
           op_val == (op_counter \div 128) % 2
           counter_val == op_counter % 128
           end == IF Len(val) >= 4 THEN Len(val) - 4 ELSE 0
       IN IF 1 > end
          THEN [kind |-> "Panic"]
          ELSE LET counter == CounterId_try_from(counter_val,
                                                 SubSeq(val, 2, end))
                   operand == extract_u32(val, 1)
               IN IF counter.kind = "Err" THEN counter
                  ELSE IF ~operand.ok THEN EndedErr
                  ELSE [kind |-> "Ok", op |-> OperationOf(op_val),
                        counter |-> counter, operand |-> operand.val]

DecodeInit ==
  /\ frame \in Frames
  /\ decoded = [kind |-> "Pending"]
  /\ TimelineIdle /\ LoadIdle /\ TestbedIdle /\ ParseIdle /\ InaIdle

Decode ==
  /\ decoded.kind = "Pending"
  /\ decoded' = StreamOperation_try_from(frame)
  /\ UNCHANGED <<frame, timelineVars, loadVars, testbedVars, parseVars, inaVars>>

DecodeNext == Decode

DecodeSpec == DecodeInit /\ [][DecodeNext]_vars

\* ======================================================= load reconciliation
\* src/src/testing/testbed.rs: Testbed::load_apps, with the Tock platform of
\* src/src/sw/platform.rs keeping its own record of what is loaded.
Apps == {"A", "B", "C"}

\* Variant: every app of the test is loaded again.
NeedsLoad_Always(app) == TRUE

\* if !currently_loaded.contains(app_name)
NeedsLoad(app) == app \notin currently_loaded
\* if !test.get_app_ids().contains(app_id)
NeedsUnload(app) == app \notin app_ids

LoadCall(call, app, ok) == [call |-> call, app |-> app, ok |-> ok]

LoadInit ==
  /\ loaded_apps \in SUBSET Apps
  /\ app_ids \in SUBSET Apps
  /\ currently_loaded = {}
  /\ ld_pc = "start"
  /\ unload_seen = {} /\ load_seen = {} /\ ld_log = <<>>
  /\ TimelineIdle /\ DecodeIdle /\ TestbedIdle /\ ParseIdle /\ InaIdle

\* let currently_loaded = self.platform_support.loaded_software()
LdSnapshot ==
  /\ ld_pc = "start"
  /\ currently_loaded' = loaded_apps
  /\ ld_pc' = "unloading"
  /\ UNCHANGED <<loaded_apps, app_ids, unload_seen, load_seen, ld_log,
                 timelineVars, decodeVars, testbedVars, parseVars, inaVars>>

\* First loop, an app the test also needs: nothing is called.
LdKeep(app) ==
  /\ ld_pc = "unloading"
  /\ app \in currently_loaded \ unload_seen
  /\ ~NeedsUnload(app)
  /\ unload_seen' = unload_seen \cup {app}
  /\ UNCHANGED <<loaded_apps, app_ids, currently_loaded, ld_pc, load_seen,
                 ld_log, timelineVars, decodeVars, testbedVars, parseVars, inaVars>>

\* First loop, Tock::unload returned Ok: the app is taken out of loaded_apps,
\* and tockloader uninstall ran and succeeded if it had been in there.
LdUnload(app) ==
  /\ ld_pc = "unloading"
  /\ app \in currently_loaded \ unload_seen
  /\ NeedsUnload(app)
  /\ loaded_apps' = loaded_apps \ {app}
  /\ ld_log' = Append(ld_log, LoadCall("unload", app, TRUE))
  /\ unload_seen' = unload_seen \cup {app}
  /\ UNCHANGED <<app_ids, currently_loaded, ld_pc, load_seen,
                 timelineVars, decodeVars, testbedVars, parseVars, inaVars>>

\* First loop, Tock::unload returned Err: the app was taken out of
\* loaded_apps before tockloader uninstall ran and failed; load_apps returns.
LdUnloadFail(app) ==
  /\ ld_pc = "unloading"
  /\ app \in currently_loaded \ unload_seen
  /\ NeedsUnload(app)
  /\ app \in loaded_apps
  /\ loaded_apps' = loaded_apps \ {app}
  /\ ld_log' = Append(ld_log, LoadCall("unload", app, FALSE))
  /\ unload_seen' = unload_seen \cup {app}
  /\ ld_pc' = "ret_err"
  /\ UNCHANGED <<app_ids, currently_loaded, load_seen,
                 timelineVars, decodeVars, testbedVars, parseVars, inaVars>>

\* The first loop has visited every app of the snapshot.
LdUnloadsDone ==
  /\ ld_pc = "unloading"
  /\ unload_seen = currently_loaded
  /\ ld_pc' = "loading"
  /\ UNCHANGED <<loaded_apps, app_ids, currently_loaded, unload_seen,
                 load_seen, ld_log, timelineVars, decodeVars, testbedVars, parseVars, inaVars>>

\* Second loop, an app that was loaded already: nothing is called.
LdSkip(app) ==
  /\ ld_pc = "loading"
  /\ app \in app_ids \ load_seen
  /\ ~NeedsLoad(app)
  /\ load_seen' = load_seen \cup {app}
  /\ UNCHANGED <<loaded_apps, app_ids, currently_loaded, ld_pc, unload_seen,
                 ld_log, timelineVars, decodeVars, testbedVars, parseVars, inaVars>>

\* Second loop, Tock::load returned Ok: tockloader install succeeded and the
\* app is inserted into loaded_apps.
LdLoad(app) ==
  /\ ld_pc = "loading"
  /\ app \in app_ids \ load_seen
  /\ NeedsLoad(app)
  /\ loaded_apps' = loaded_apps \cup {app}
  /\ ld_log' = Append(ld_log, LoadCall("load", app, TRUE))
  /\ load_seen' = load_seen \cup {app}
  /\ UNCHANGED <<app_ids, currently_loaded, ld_pc, unload_seen,
                 timelineVars, decodeVars, testbedVars, parseVars, inaVars>>

\* Second loop, Tock::load returned Err: nothing is inserted; load_apps
\* returns Error::Software.
LdLoadFail(app) ==
  /\ ld_pc = "loading"
  /\ app \in app_ids \ load_seen
  /\ NeedsLoad(app)
  /\ ld_log' = Append(ld_log, LoadCall("load", app, FALSE))
  /\ load_seen' = load_seen \cup {app}
  /\ ld_pc' = "ret_err"
  /\ UNCHANGED <<loaded_apps, app_ids, currently_loaded, unload_seen,
                 timelineVars, decodeVars, testbedVars, parseVars, inaVars>>

\* Ok(())
LdReturn ==
  /\ ld_pc = "loading"
  /\ load_seen = app_ids
  /\ ld_pc' = "ret_ok"
  /\ UNCHANGED <<loaded_apps, app_ids, currently_loaded, unload_seen,
                 load_seen, ld_log, timelineVars, decodeVars, testbedVars, parseVars, inaVars>>

\* Tock::loaded_software
loaded_software == loaded_apps

LoadNext ==
  \/ LdSnapshot
  \/ \E app \in Apps : LdKeep(app)
  \/ \E app \in Apps : LdUnload(app)
  \/ \E app \in Apps : LdUnloadFail(app)
  \/ LdUnloadsDone
  \/ \E app \in Apps : LdSkip(app)
  \/ \E app \in Apps : LdLoad(app)
  \/ \E app \in Apps : LdLoadFail(app)
  \/ LdReturn

LoadSpec == LoadInit /\ [][LoadNext]_vars

\* ========================================================= bit-level parsers
\* src/common/src/mem.rs, mod parse: parsers over nom's bit-level input
\* (&[u8], usize), the bytes not yet consumed and the bit offset into the
\* first of them.
MaxTail == 5        \* most bytes following byte 0 in a parser input

TailBytes == {3, 100}                \* values of the bytes after byte 0
Tails == UNION {[1..n -> TailBytes] : n \in 0..MaxTail}

\* input.slice(n..)
Drop(s, n) == SubSeq(s, n + 1, Len(s))

\* nom::bits::complete::take: the loop over the bytes, most significant bit
\* first; `offset` bits of the first byte are already consumed.
RECURSIVE take_loop(_, _, _, _, _)
take_loop(bs, offset, remaining, acc, end_offset) ==
  IF bs = <<>> \/ remaining = 0
  THEN [acc |-> acc, end_offset |-> end_offset]
  ELSE LET val == Head(bs) % (2 ^ (8 - offset))
       IN IF remaining < 8 - offset
          THEN [acc |-> acc + val \div (2 ^ (8 - offset - remaining)),
                end_offset |-> remaining + offset]
          ELSE take_loop(Tail(bs), 0, remaining - (8 - offset),
                         acc + val * (2 ^ (remaining - (8 - offset))),
                         end_offset)

\* nom::bits::complete::take(count)
bits_take(input, count) ==
  IF count = 0
  THEN [kind |-> "Ok", rest |-> input, val |-> 0]
  ELSE LET cnt == (count + input.off) \div 8
       IN IF Len(input.s) * 8 < count + input.off
          THEN [kind |-> "Err", error |-> "Eof"]
          ELSE LET n == IF cnt + 1 <= Len(input.s) THEN cnt + 1
                        ELSE Len(input.s)
                   r == take_loop(SubSeq(input.s, 1, n), input.off, count, 0, 0)
               IN [kind |-> "Ok",
                   rest |-> [s |-> Drop(input.s, cnt), off |-> r.end_offset],
                   val |-> r.acc]

\* nom::bits::complete::tag(pattern, count)
bits_tag(input, pattern, count) ==
  LET r == bits_take(input, count)
  IN IF r.kind = "Ok" /\ r.val # pattern
     THEN [kind |-> "Err", error |-> "TagBits"]
     ELSE r

\* nom::bits::bytes(nom::bytes::complete::take(len)): the byte parser runs on
\* the input from the next byte boundary on.
make_bit_compatible(input, len) ==
  LET skip == IF input.off % 8 # 0 THEN 1 + input.off \div 8
              ELSE input.off \div 8
      inner == Drop(input.s, skip)
  IN IF Len(inner) < len
     THEN [kind |-> "Err", error |-> "Eof"]
     ELSE [kind |-> "Ok", rest |-> [s |-> Drop(inner, len), off |-> 0],
           val |-> SubSeq(inner, 1, len)]

\* Variant: the first alternative yields Set, the second Add.
stream_operation_Swapped(input) ==
  LET a == bits_tag(input, 0, 1)
      b == bits_tag(input, 1, 1)
  IN IF a.kind = "Ok" THEN [a EXCEPT !.val = "Set"]
     ELSE IF b.kind = "Ok" THEN [b EXCEPT !.val = "Add"]
     ELSE b

\* parse::stream_operation: alt((map(tag(0, 1), Add), map(tag(1, 1), Set)))
stream_operation(input) ==
  LET a == bits_tag(input, 0, 1)
      b == bits_tag(input, 1, 1)
  IN IF a.kind = "Ok" THEN [a EXCEPT !.val = "Add"]
     ELSE IF b.kind = "Ok" THEN [b EXCEPT !.val = "Set"]
     ELSE b

\* Variant: the first byte is the most significant.
little_u32_BigEndian(b0, b8, b16, b24) ==
  b0 * (2 ^ 24) + b8 * (2 ^ 16) + b16 * (2 ^ 8) + b24

\* macro little_u32!: the four bytes occupy disjoint bit ranges, so the
\* bitwise OR is their sum.
little_u32(b0, b8, b16, b24) ==
  b0 + b8 * (2 ^ 8) + b16 * (2 ^ 16) + b24 * (2 ^ 24)

\* parse::counter_stream(id, specific_byte_len, construct):
\* map(preceded(tag(id, 7), bytes(take(len))), construct)
counter_stream(id, specific_byte_len, construct, input) ==
  LET t == bits_tag(input, id, 7)
  IN IF t.kind # "Ok" THEN t
     ELSE LET d == make_bit_compatible(t.rest, specific_byte_len)
          IN IF d.kind # "Ok" THEN d
             ELSE [d EXCEPT !.val =
                     [counter |-> construct,
                      pid |-> little_u32(d.val[1], d.val[2], d.val[3],
                                         d.val[4])]]

\* parse::pcb
pcb(input) == counter_stream(1, 4, "PCB", input)

\* parse::upcall_queue
upcall_queue(input) == counter_stream(2, 4, "UpcallQueue", input)

ParseInit ==
  /\ \/ parse_input = [s |-> <<>>, off |-> 0]
     \/ \E b \in 0..255, t \in Tails :
          parse_input = [s |-> <<b>> \o t, off |-> 0]
  /\ parse_fn = ""
  /\ parsed = [kind |-> "Pending"]
  /\ TimelineIdle /\ DecodeIdle /\ LoadIdle /\ TestbedIdle /\ InaIdle

ParseStreamOperation ==
  /\ parse_fn = ""
  /\ parse_fn' = "stream_operation"
  /\ parsed' = stream_operation(parse_input)
  /\ UNCHANGED <<parse_input, timelineVars, decodeVars, loadVars, testbedVars, inaVars>>

ParsePcb ==
  /\ parse_fn = ""
  /\ parse_fn' = "pcb"
  /\ parsed' = pcb(parse_input)
  /\ UNCHANGED <<parse_input, timelineVars, decodeVars, loadVars, testbedVars, inaVars>>

ParseUpcallQueue ==
  /\ parse_fn = ""
  /\ parse_fn' = "upcall_queue"
  /\ parsed' = upcall_queue(parse_input)
  /\ UNCHANGED <<parse_input, timelineVars, decodeVars, loadVars, testbedVars, inaVars>>

ParseNext ==
  \/ ParseStreamOperation
  \/ ParsePcb
  \/ ParseUpcallQueue

ParseSpec == ParseInit /\ [][ParseNext]_vars

\* ============================================================ INA219 driver
\* src/src/hw/ina219.rs: current_draw -> read_current -> read(CURRENT)
InaBytes == (0..15) \cup {128, 255}  \* bytes the sensor puts on the bus

\* a & b on 16-bit values
RECURSIVE BitAnd(_, _, _)
BitAnd(a, b, bits) ==
  IF bits = 0 THEN 0
  ELSE (a % 2) * (b % 2) + 2 * BitAnd(a \div 2, b \div 2, bits - 1)

\* ((out[0] as u16) << 8) & (out[1] as u16)
ReadValue(out) == BitAnd((out[1] * 256) % 65536, out[2], 16)

InaInit ==
  /\ ina_pc = "lock"
  /\ ina_out = <<0, 0>>
  /\ ina_read = [kind |-> "None"]
  /\ ina_draw = [kind |-> "None"]
  /\ TimelineIdle /\ DecodeIdle /\ LoadIdle /\ TestbedIdle /\ ParseIdle

InaFail(msg) ==
  /\ ina_read' = [kind |-> "Err", error |-> msg]
  /\ ina_pc' = "read_returned"
  /\ UNCHANGED <<ina_out, ina_draw, timelineVars, decodeVars, loadVars, testbedVars, parseVars>>

\* let i2c = self.lock_i2c()?
InaLock ==
  /\ ina_pc = "lock"
  /\ ina_pc' = "write"
  /\ UNCHANGED <<ina_out, ina_read, ina_draw, timelineVars, decodeVars, loadVars, testbedVars, parseVars>>

InaLockFail ==
  /\ ina_pc = "lock"
  /\ InaFail("failed to lock I2C interface")

\* (*i2c).borrow_mut().write(&buf)
InaWritePointer ==
  /\ ina_pc = "write"
  /\ ina_pc' = "read"
  /\ UNCHANGED <<ina_out, ina_read, ina_draw, timelineVars, decodeVars, loadVars, testbedVars, parseVars>>

InaWritePointerFail ==
  /\ ina_pc = "write"
  /\ InaFail("failed to write register pointer")

\* (*i2c).borrow_mut().read(&mut out): the sensor sends two bytes
InaReadBytes ==
  /\ ina_pc = "read"
  /\ \E hi \in InaBytes, lo \in InaBytes : ina_out' = <<hi, lo>>
  /\ ina_pc' = "compose"
  /\ UNCHANGED <<ina_read, ina_draw, timelineVars, decodeVars, loadVars, testbedVars, parseVars>>

InaReadBytesFail ==
  /\ ina_pc = "read"
  /\ InaFail("failed to read register contents")

\* Ok(((out[0] as u16) << 8) & (out[1] as u16))
InaCompose ==
  /\ ina_pc = "compose"
  /\ ina_read' = [kind |-> "Ok", val |-> ReadValue(ina_out)]
  /\ ina_pc' = "read_returned"
  /\ UNCHANGED <<ina_out, ina_draw, timelineVars, decodeVars, loadVars, testbedVars, parseVars>>

\* current_draw: self.read_current().unwrap() as u32
InaCurrentDraw ==
  /\ ina_pc = "read_returned"
  /\ ina_draw' = IF ina_read.kind = "Ok"
                 THEN [kind |-> "Value", val |-> ina_read.val]
                 ELSE [kind |-> "Panic"]
  /\ ina_pc' = "done"
  /\ UNCHANGED <<ina_out, ina_read, timelineVars, decodeVars, loadVars, testbedVars, parseVars>>

InaNext ==
  \/ InaLock
  \/ InaLockFail
  \/ InaWritePointer
  \/ InaWritePointerFail
  \/ InaReadBytes
  \/ InaReadBytesFail
  \/ InaCompose
  \/ InaCurrentDraw

InaSpec == InaInit /\ [][InaNext]_vars

\* ================================================= the operation bit, twice
\* src/common/src/mem.rs: StreamOperation::try_from and parse::stream_operation
\* applied to the same bytes.
OpBitInit ==
  /\ frame \in Frames
  /\ decoded = [kind |-> "Pending"]
  /\ parse_input = [s |-> frame, off |-> 0]
  /\ parse_fn = ""
  /\ parsed = [kind |-> "Pending"]
  /\ TimelineIdle /\ LoadIdle /\ TestbedIdle /\ InaIdle

OpBitNext ==
  \/ Decode
  \/ ParseStreamOperation

OpBitSpec == OpBitInit /\ [][OpBitNext]_vars

\* ------------------------------------------------------------- properties
\* No step is possible any more: every thread has ended or is blocked.
Quiescent == ~ENABLED Next

ExecReturned == pc["exec"] \in {"e_ret_ok", "e_ret_err"}
AfterLoop ==
  pc["exec"] \in {"e_final_write", "e_final_wait", "e_join_obs", "e_join_met",
                  "e_ret_ok"}
RuntimeFailures ==
  {"prep_observe", "observe", "clear_interrupt", "prep_meter"}
\* Positions of a worker between reading a test and finishing its iteration.
InIteration(w) ==
  IF w = "obs"
  THEN pc[w] \in {"prep", "go", "observe", "done", "clear", "send"}
  ELSE pc[w] \in {"prep", "go", "meter", "done", "collect", "send"}
WorkerTest(w) == IF w = "obs" THEN obs_test ELSE met_test
DoneReleases == releases \div 3

\* C1: the evaluations produced so far carry the ids of the first tests of the
\* input, one each and in input order; at the loop head one evaluation exists
\* for every test taken so far, and once the loop is left (and when execute
\* returns Ok) every test has exactly one evaluation with its id.
C1_OneEvaluationPerTestInOrder ==
  /\ Len(test_results) <= Len(tests)
  /\ \A i \in 1..Len(test_results) : test_results[i].test_id = tests[i]
  /\ pc["exec"] = "e_next" => Len(test_results) = idx
  /\ AfterLoop =>
       \A i \in 1..Len(tests) :
         Cardinality({j \in 1..Len(test_results) :
                        test_results[j].test_id = tests[i]}) = 1

\* C1 witness: execute returned Ok for two tests, the first failed at load,
\* the second completed.
C1_Witness ==
  /\ pc["exec"] = "e_ret_ok"
  /\ Len(tests) = 2
  /\ Len(test_results) = 2
  /\ test_results[1].outcome = "Failed" /\ test_results[1].spec
  /\ test_results[2].outcome = "Completed"

\* C2: when the run has come to rest, every thread has called barrier.wait()
\* three times for each test whose reconfigure and load succeeded (each test
\* written to the slot), plus at most the one final call.
C2_ThreeWaitsPerPublishedTest ==
  Quiescent =>
    \A p \in Parties :
      waitCalls[p] \in {3 * Len(published), 3 * Len(published) + 1}

\* C3: a step in which reconfigure or load_apps fails appends a Failed
\* evaluation for the current test, leaves the slot and the barrier alone,
\* makes no barrier.wait() call, finds both workers at the ready rendezvous
\* and leaves them there, and returns the executor to the loop head; the next
\* loop step then takes the following test.
C3_FailedTestSkipsCoordination ==
  [][/\ (pc["exec"] \in {"e_reconfigure", "e_load"} /\ pc'["exec"] = "e_next")
          => /\ Len(test_results') = Len(test_results) + 1
             /\ test_results'[Len(test_results')].outcome = "Failed"
             /\ test_results'[Len(test_results')].test_id = tests[idx]
             /\ current_test' = current_test
             /\ published' = published
             /\ waiting' = waiting
             /\ waitCalls' = waitCalls
             /\ \A w \in Workers : pc[w] = "ready" /\ pc'[w] = "ready"
             /\ idx' = idx
     /\ (pc["exec"] = "e_next" /\ pc'["exec"] # "e_next" /\ idx < Len(tests))
          => idx' = idx + 1 /\ pc'["exec"] = "e_reconfigure"
    ]_vars

\* C3 witness: the first test failed at reconfigure, the second one was run
\* to completion afterwards and execute returned.
C3_Witness ==
  /\ pc["exec"] = "e_ret_ok"
  /\ Len(test_results) = 2
  /\ test_results[1].outcome = "Failed" /\ ~test_results[1].spec
  /\ test_results[2].outcome = "Completed"
  /\ \A p \in Parties : waitCalls[p] = 4

\* C4: a run in which both workers were launched and no call of the executor
\* returned an error through `?` comes to rest only with execute returned Ok
\* and both workers out of their loops.
C4_RunTerminates ==
  (Quiescent /\ pc["exec"] # "e_ret_err" /\ \A w \in Workers : pc[w] # "unspawned")
    => (pc["exec"] = "e_ret_ok" /\ \A w \in Workers : pc[w] = "exit")

C6_OneSentinelPerDone ==
  \A w \in Workers :
    /\ noneSent[w] <= DoneReleases
    /\ Quiescent => noneSent[w] = DoneReleases

\* C7: a worker whose iteration hit a runtime failure has, when the run has
\* come to rest, sent the None sentinel of every test it read, and the
\* executor is not blocked in the barrier.
C7_SentinelAfterWorkerFailure ==
  Quiescent =>
    \A w \in Workers :
      panic_at[w] \in RuntimeFailures
        => noneSent[w] = Len(readLog[w]) /\ "exec" \notin waiting

\* C8: when a worker thread has died, the run does not come to rest before
\* execute has returned.
C8_MissingPartyAborts ==
  (Quiescent /\ \E w \in Workers : pc[w] = "panicked") => ExecReturned

\* C9: in every Completed evaluation gpio_responses holds no trace pin, the
\* trace edges hold only trace pins, and every response received for the test
\* is in exactly one of the two lists.
C9_ResponsesSplitByTracePin ==
  \A i \in 1..Len(test_results) :
    test_results[i].outcome = "Completed" =>
      LET e == test_results[i]
          InSeq(r, q) == \E k \in 1..Len(q) : q[k] = r
      IN /\ \A k \in 1..Len(e.gpio_responses) :
              e.gpio_responses[k].pin \notin TracePins
         /\ Len(e.gpio_responses) + Len(e.trace_edges) = Len(recvLog[i])
         /\ \A k \in 1..Len(recvLog[i]) :
              LET r == recvLog[i][k]
              IN IF r.pin \in TracePins
                 THEN InSeq(r, e.trace_edges) /\ ~InSeq(r, e.gpio_responses)
                 ELSE InSeq(r, e.gpio_responses) /\ ~InSeq(r, e.trace_edges)

\* C9 witness: a Completed evaluation for which one trace-pin response and one
\* other response were received.
C9_Witness ==
  \E i \in 1..Len(test_results) :
    /\ test_results[i].outcome = "Completed"
    /\ Len(test_results[i].trace_edges) = 1
    /\ Len(test_results[i].gpio_responses) = 1

\* C10: in every Completed evaluation every response of gpio_responses has a
\* timestamp not earlier than the execution's start instant.
C10_ResponsesNotBeforeStart ==
  \A i \in 1..Len(test_results) :
    test_results[i].outcome = "Completed" =>
      \A k \in 1..Len(test_results[i].gpio_responses) :
        test_results[i].gpio_responses[k].time >= test_results[i].start

\* C11: the operations are driven in ascending time order: a driven operation
\* is never preceded by the driving of an operation with a strictly larger
\* time, whatever order Test::new was given them in.
C11_DrivenInAscendingTime ==
  \A i, j \in 1..Len(driven) :
    i < j => driven[i].op.time <= driven[j].op.time

\* C12: every operation is driven only once the clock has reached
\* t0 + time: the instant read before driving is never earlier.
C12_NeverDrivenEarly ==
  \A i \in 1..Len(driven) : driven[i].at >= t0 + driven[i].op.time

\* Two operations have been driven, the later one MaxTimeMs after t0.
C12_Witness ==
  /\ Len(driven) = 2
  /\ driven[1].op.time = 0
  /\ driven[2].op.time = MaxTimeMs
  /\ driven[2].at = t0 + MaxTimeMs

\* C13: a successful execute reports a duration at least as long as the
\* largest time among the operations of the test; with no operations it
\* succeeds and drives nothing.
C13_DurationCoversTimeline ==
  /\ tl_pc = "ret_ok" =>
       \A i \in 1..Len(tl_ops) : duration >= tl_ops[i].time
  /\ (tl_ops = <<>> /\ tl_pc # "new") =>
       /\ tl_pc \in {"finish", "ret_ok"}
       /\ driven = <<>>

\* execute has succeeded for operations at 0 ms and at MaxTimeMs.
C13_Witness ==
  /\ tl_pc = "ret_ok"
  /\ Len(tl_ops) = 2
  /\ tl_ops[1].time = 0
  /\ tl_ops[2].time = MaxTimeMs
  /\ duration >= MaxTimeMs
  /\ Len(driven) = 2

\* The frame grammar: the counter ids of the table and their payload lengths.
KnownCounters == 1..5
PayloadLen(id) == IF id = 4 THEN 8 ELSE 4
CounterOfByte0(b) == IF b >= 128 THEN b - 128 ELSE b
WellFormed(f) ==
  /\ Len(f) >= 1
  /\ CounterOfByte0(f[1]) \in KnownCounters
  /\ Len(f) = 1 + PayloadLen(CounterOfByte0(f[1])) + 4
Decoded == decoded.kind \notin {"Pending", "Idle"}

\* C14: the operation comes from the most significant bit of byte 0 (0 Set,
\* 1 Add) and the counter from its low seven bits: every well-formed frame
\* decodes, and every decoded operation has the operation and the counter
\* variant that byte 0 names.
C14_OpAndCounterFromByte0 ==
  Decoded =>
    /\ WellFormed(frame) => decoded.kind = "Ok"
    /\ decoded.kind = "Ok" =>
         /\ decoded.op = (IF frame[1] \in 1..5 THEN "Set" ELSE "Add")
         /\ frame[1] \in (1..5) \cup (129..133)
         /\ decoded.counter.tag =
              CASE CounterOfByte0(frame[1]) = 1 -> "PCB"
                [] CounterOfByte0(frame[1]) = 2 -> "UpcallQueue"
                [] CounterOfByte0(frame[1]) = 3 -> "GrantPointerTable"
                [] CounterOfByte0(frame[1]) = 4 -> "Grant"
                [] OTHER -> "CustomGrant"

\* A well-formed Add frame for a Grant counter has been decoded.
C14_Witness ==
  /\ decoded.kind = "Ok"
  /\ WellFormed(frame)
  /\ frame[1] = 132
  /\ decoded.op = "Add"
  /\ decoded.counter.tag = "Grant"

\* C15: the operand of a well-formed frame is the little-endian u32 of its
\* last four bytes, which are not bytes of the counter payload.
C15_OperandIsTrailingWord ==
  (Decoded /\ WellFormed(frame)) =>
    /\ decoded.kind = "Ok"
    /\ decoded.operand =
         LET n == Len(frame)
         IN frame[n - 3] + frame[n - 2] * 256 + frame[n - 1] * 65536
            + frame[n] * 16777216

\* C16: a slice too short for the op/counter byte, the counter's payload and
\* the operand decodes to an error value.
C16_ShortFrameIsError ==
  (Decoded /\ (Len(frame) < 5
               \/ /\ CounterOfByte0(frame[1]) \in KnownCounters
                  /\ Len(frame) < 1 + PayloadLen(CounterOfByte0(frame[1])) + 4))
    => decoded.kind = "Err"

\* C17: a frame whose counter id is 0 or in 6..127 decodes to the
\* unknown-counter error naming that id.
C17_UnknownCounterIsError ==
  (Decoded /\ Len(frame) >= 1
           /\ CounterOfByte0(frame[1]) \notin KnownCounters)
    => /\ decoded.kind = "Err"
       /\ decoded.error = "counter not identified"
       /\ decoded.id = CounterOfByte0(frame[1])

\* The apps of the platform calls of one kind and outcome, and their places.
CallsOf(call, ok) ==
  {i \in 1..Len(ld_log) : ld_log[i].call = call /\ ld_log[i].ok = ok}
AppsOf(call, ok) == {ld_log[i].app : i \in CallsOf(call, ok)}

\* C18: when every platform call succeeds, load_apps unloads exactly the
\* loaded apps the test does not need and loads exactly the needed apps that
\* were not loaded, each once, every unload before any load, and afterwards
\* loaded_software() is the test's set of apps.
C18_ReconcilesBySetDifference ==
  ld_pc = "ret_ok" =>
    /\ \A i \in 1..Len(ld_log) : ld_log[i].ok
    /\ AppsOf("unload", TRUE) = currently_loaded \ app_ids
    /\ AppsOf("load", TRUE) = app_ids \ currently_loaded
    /\ Len(ld_log) = Cardinality(currently_loaded \ app_ids)
                     + Cardinality(app_ids \ currently_loaded)
    /\ \A i \in CallsOf("unload", TRUE), j \in CallsOf("load", TRUE) : i < j
    /\ loaded_software = app_ids

\* Loaded {A, B}, needed {B, C}: A was unloaded, then C loaded.
C18_Witness ==
  /\ ld_pc = "ret_ok"
  /\ currently_loaded = {"A", "B"}
  /\ app_ids = {"B", "C"}
  /\ ld_log = <<LoadCall("unload", "A", TRUE), LoadCall("load", "C", TRUE)>>
  /\ loaded_software = {"B", "C"}

\* C19: once load_apps is over and the platform refused to unload some apps,
\* loaded_software() is the test's apps together with the refused ones.
C19_RefusedAppsStayLoaded ==
  (ld_pc \in {"ret_ok", "ret_err"} /\ AppsOf("unload", FALSE) # {})
    => loaded_software = app_ids \cup AppsOf("unload", FALSE)

\* The executor's positions inside one iteration of its loop, in code order.
ExecSteps ==
  <<"e_reconfigure", "e_load", "e_publish", "e_inputs", "e_ready", "e_go",
    "e_stimulus", "e_done", "e_drain_obs", "e_partition", "e_drain_energy",
    "e_push">>
InTest(l) == \E i \in 1..Len(ExecSteps) : ExecSteps[i] = l
ExecRank(l) == CHOOSE i \in 1..Len(ExecSteps) : ExecSteps[i] = l
\* Rendezvous completed and wait calls made for the tests published so far,
\* the last of them being the executor's current test.
BeforeReady ==
  /\ waitCalls["exec"] = 3 * Len(published)
  /\ \A i \in 1..Len(published) : published[i] # tests[idx]
AfterGoBeforeDone ==
  /\ published # <<>>
  /\ published[Len(published)] = tests[idx]
  /\ current_test = tests[idx]
  /\ waitCalls["exec"] = 3 * Len(published) - 1
  /\ releases = 3 * Len(published) - 1
AfterDone ==
  /\ published # <<>>
  /\ published[Len(published)] = tests[idx]
  /\ waitCalls["exec"] = 3 * Len(published)
  /\ releases = 3 * Len(published)

\* C20: inside one test the executor moves through reconfigure, load, slot
\* write, ready and go rendezvous, stimulus, done rendezvous, drain and push
\* in this order, one after the other; the platform is called only before
\* the test's ready rendezvous, the stimulus runs only between the release
\* of the go rendezvous and the executor's call of the done rendezvous, and
\* the channels are drained and the evaluation pushed only after the done
\* rendezvous released.
C20_ExecutorStepOrder ==
  [][/\ (pc'["exec"] # pc["exec"] /\ InTest(pc["exec"]) /\ InTest(pc'["exec"]))
          => /\ idx' = idx
             /\ ExecRank(pc'["exec"]) = ExecRank(pc["exec"]) + 1
     /\ (pc'["exec"] # pc["exec"] /\ ~InTest(pc["exec"]) /\ InTest(pc'["exec"]))
          => pc'["exec"] = "e_reconfigure"
     /\ pc["exec"] \in {"e_reconfigure", "e_load"} => BeforeReady
     /\ platform_spec' # platform_spec
          => pc["exec"] \in {"e_reconfigure", "e_push"}
     /\ pc["exec"] = "e_stimulus" => AfterGoBeforeDone
     /\ exec_result' # exec_result => pc["exec"] \in {"e_stimulus", "e_push"}
     /\ pc["exec"] \in {"e_drain_obs", "e_partition", "e_drain_energy",
                        "e_push"} => AfterDone
     /\ responses' # responses
          => pc["exec"] \in {"e_drain_obs", "e_push"}
     /\ (Len(test_results') > Len(test_results)
         /\ test_results'[Len(test_results')].outcome # "Failed")
          => pc["exec"] = "e_push"
    ]_vars

\* The second test has gone through every step and its evaluation is about
\* to be pushed, after a first test that was run as well.
C20_Witness ==
  /\ pc["exec"] = "e_push"
  /\ idx = 2
  /\ Len(test_results) = 1
  /\ exec_result.ok
  /\ platform_spec
  /\ AfterDone
  /\ releases = 6

\* C21: the metering worker holds the meters' mutex only while it samples:
\* not while it is at a barrier rendezvous, nor while it collects and sends.
C21_MutexOnlyWhileSampling ==
  pc["met"] \in {"ready", "go", "done", "collect", "send"} => ~MetersLocked

\* While the metering worker handles a test that needs no metering, its
\* buffers, its send queue and the executor's energy map hold no sample.
NothingToSend ==
  (pc["met"] \in {"go", "done", "collect", "send"} /\ ~need_metering)
    => /\ samples = EmptySamples
       /\ met_queue = <<>>
       /\ energy_data = EmptySamples

\* The worker's steps for such a test: from go to done without a sample, and
\* out of the send position by handing over the sentinel (or by the panic of
\* a send whose receiver is gone).
UnmeteredSteps ==
  /\ (pc["met"] = "go" /\ ~need_metering /\ pc'["met"] # "go")
       => /\ pc'["met"] = "done"
          /\ nSamples' = nSamples
  /\ (pc["met"] = "send" /\ ~need_metering /\ pc'["met"] # "send")
       => \/ /\ pc'["met"] = "ready"
             /\ pc'["exec"] = "e_push"
             /\ noneSent'["met"] = noneSent["met"] + 1
             /\ energy_data' = EmptySamples
             /\ waitCalls["met"] = 3 * Len(readLog["met"])
          \/ pc'["met"] = "panicked" /\ ReceiversDropped

RECURSIVE IsSubseq(_, _)
IsSubseq(a, b) ==
  IF a = <<>> THEN TRUE
  ELSE IF b = <<>> THEN FALSE
  ELSE IF Head(a) = Head(b) THEN IsSubseq(Tail(a), Tail(b))
  ELSE IsSubseq(a, Tail(b))

Ascending(q, key(_)) == \A i, j \in 1..Len(q) : i < j => key(q[i]) < key(q[j])

TimeOf(r) == r.time

SampleOf(x) == x

\* The lists of every evaluation are subsequences of the responses received
\* for it and are in ascending observation time and sampling order.
EvaluationsInOrder ==
  \A i \in 1..Len(test_results) :
    LET e == test_results[i]
    IN /\ IsSubseq(e.trace_edges, recvLog[i])
       /\ IsSubseq(e.gpio_responses, recvLog[i])
       /\ Ascending(recvLog[i], TimeOf)
       /\ Ascending(e.trace_edges, TimeOf)
       /\ Ascending(e.gpio_responses, TimeOf)
       /\ \A m \in Meters : Ascending(e.energy[m], SampleOf)

\* The lists being built are in order as well.
PendingInOrder ==
  /\ pc["obs"] = "send"
       => Ascending(responses \o [i \in 1..Len(obs_responses) |->
                                    Remapped(obs_responses[i])], TimeOf)
  /\ IsSubseq(traces, responses) /\ IsSubseq(other_gpio, responses)
  /\ \A m \in Meters : Ascending(energy_data[m], SampleOf)

\* Every hand-over appends at the tail, and the evaluation takes the lists
\* as they are.
AppendSteps ==
  /\ (pc["obs"] = "send" /\ obs_responses' # obs_responses)
       => /\ obs_responses # <<>>
          /\ obs_responses' = Tail(obs_responses)
          /\ responses' = Append(responses, Remapped(Head(obs_responses)))
  /\ (pc["met"] = "send" /\ met_queue' # met_queue)
       => /\ met_queue # <<>>
          /\ met_queue' = Tail(met_queue)
          /\ LET msg == Head(met_queue)
             IN /\ energy_data'[msg.meter_id]
                     = Append(energy_data[msg.meter_id], msg.sample)
                /\ \A m \in Meters \ {msg.meter_id} :
                     energy_data'[m] = energy_data[m]
  /\ (Len(test_results') = Len(test_results) + 1 /\ pc["exec"] = "e_push")
       => LET e == test_results'[Len(test_results')]
          IN /\ e.gpio_responses = other_gpio
             /\ e.trace_edges = traces
             /\ e.energy = energy_data

C24_TiesInArrivalOrder ==
  \A i, j \in 1..Len(driven) :
    (i < j /\ driven[i].op.time = driven[j].op.time
           /\ driven[i].op # driven[j].op)
      => \E p, q \in 1..Len(tl_ops) :
           p < q /\ tl_ops[p] = driven[i].op /\ tl_ops[q] = driven[j].op

\* C25: stream_operation applied at bit offset 0 to an input of at least one
\* byte returns Add when the byte's most significant bit is 0 and Set when
\* it is 1, whatever the other seven bits are, and leaves the same bytes
\* with bit offset 1: exactly one bit is consumed.
C25_StreamOperationReadsTopBit ==
  (parse_fn = "stream_operation" /\ parse_input.s # <<>>) =>
    /\ parsed.kind = "Ok"
    /\ parsed.val = IF Head(parse_input.s) < 128 THEN "Add" ELSE "Set"
    /\ parsed.rest = [s |-> parse_input.s, off |-> 1]

\* A Set recognised in a byte whose lower seven bits are not all zero.
C25_Witness ==
  /\ parse_fn = "stream_operation"
  /\ Len(parse_input.s) = 2
  /\ Head(parse_input.s) = 129
  /\ parsed.kind = "Ok"
  /\ parsed.val = "Set"

ExpectedCounter(fn) == IF fn = "pcb" THEN "PCB" ELSE "UpcallQueue"

ExpectedId(fn) == IF fn = "pcb" THEN 1 ELSE 2

\* C26: pcb (upcall_queue) applied at bit offset 0 succeeds exactly when the
\* top seven bits of the first byte are 1 (2) and at least four more bytes
\* follow, and then yields PCB(v) (UpcallQueue(v)), v being the little-endian
\* u32 of the four bytes after the first byte.
C26_CounterParsers ==
  parse_fn \in {"pcb", "upcall_queue"} =>
    LET s == parse_input.s
        accepts == /\ Len(s) >= 5
                   /\ s[1] \div 2 = ExpectedId(parse_fn)
    IN /\ (parsed.kind = "Ok") <=> accepts
       /\ accepts =>
            /\ parsed.val.counter = ExpectedCounter(parse_fn)
            /\ parsed.val.pid = s[2] + 256 * s[3] + 65536 * s[4]
                                  + 16777216 * s[5]

\* upcall_queue accepts a six-byte input whose first byte is 2 << 1 | 1 and
\* whose following bytes differ, so that the byte order shows in the value.
C26_Witness ==
  /\ parse_fn = "upcall_queue"
  /\ parse_input.s = <<5, 3, 100, 100, 3, 3>>
  /\ parsed.kind = "Ok"
  /\ parsed.val = [counter |-> "UpcallQueue",
                   pid |-> 3 + 256 * 100 + 65536 * 100 + 16777216 * 3]

\* C27: a successful register read returns high << 8 | low of the two bytes
\* received, and current_draw reports that value.
C27_ReadComposesHighAndLow ==
  /\ ina_read.kind = "Ok" => ina_read.val = ina_out[1] * 256 + ina_out[2]
  /\ ina_draw.kind = "Value" => ina_draw.val = ina_out[1] * 256 + ina_out[2]

\* C28: once execute has returned, with results or with an error, and no
\* thread can take a step any more, no spawned worker is still inside its
\* loop, blocked at a rendezvous or on a send: each one has left its loop or
\* has ended.
C28_NoWorkerLeftBlocked ==
  (ExecReturned /\ Quiescent) =>
    \A w \in Workers : pc[w] \in {"unspawned", "exit", "panicked"}

\* C29: a stimulus error of a published test does not abort the executor
\* thread: the executor never panics while it holds the error result of
\* test.execute, and when it leaves the loop iteration of such a test it has
\* appended the Errored evaluation of that test.
C29_StimulusErrorIsRecorded ==
  /\ pc["exec"] = "panicked" => exec_result.ok
  /\ \A i \in 1..Len(test_results) :
       test_results[i].outcome = "Errored" =>
         test_results[i].test_id = tests[i] /\ test_results[i].spec

C31_DecodersAgreeOnOperation ==
  (decoded.kind = "Ok" /\ parse_fn = "stream_operation" /\ parsed.kind = "Ok")
    => decoded.op = parsed.val

====
